---- MODULE Spec2Model ----
(***************************************************************************)
(* Model of src/index.ts: the mock-data tool server.  One tool call is     *)
(* handled synchronously by MockDataServer.processRequest, which routes    *)
(* on the tool name, builds a plain JavaScript object field by field and   *)
(* serializes it with JSON.stringify.                                      *)
(*                                                                         *)
(* JavaScript values are records [kind, gen, num, props]; a JavaScript     *)
(* object is the sequence of its own enumerable properties in the order    *)
(* the language enumerates them; a completion is "normal" or "throw".      *)
(* The pseudo-random source is a sequence of picks, one per field.         *)
(***************************************************************************)
EXTENDS Integers, Sequences, FiniteSets, TLC

VARIABLES pc, request, rnd, response, sideband, calls, taken

vars == <<pc, request, rnd, response, sideband, calls, taken>>

-----------------------------------------------------------------------------
(* Bounds of the model                                                     *)

\* longest field list a modelled request carries
MaxFields == 2

\* option values min / max range over -OptBound .. OptBound
OptBound == 2

\* how many earlier calls and their results the host remembers
MaxEarlier == 2

\* property names used by requests: two ordinary names and two names that
\* are canonical array indices ("1", "2").  All of them are names an
\* assignment data[name] = v creates as an own property; the name
\* "__proto__", which it does not, is outside the modelled names.
Names == {"a", "b", "1", "2"}

\* the numeric value of the names that are canonical array indices
ArrayIndexValue == ("1" :> 1) @@ ("2" :> 2)

\* what the pseudo-random source can pick inside a requested range
RandomPicks == {"lo", "mid", "hi"}

\* locale arguments: absent (<<>>), empty, "en", another language
Locales == {<<>>, <<"">>, <<"en">>, <<"fr">>}

-----------------------------------------------------------------------------
(* JavaScript values                                                       *)

\* a string a faker generator produced
Str(gen) == [kind |-> "string", gen |-> gen, num |-> 0, props |-> <<>>, text |-> <<>>]

\* a decimal string a faker generator produced, with the number it writes
NumStr(gen, n) == [kind |-> "string", gen |-> gen, num |-> n, props |-> <<>>, text |-> <<>>]

\* a string of the program text, as the sequence of its parts
Lit(parts) == [kind |-> "string", gen |-> "literal", num |-> 0, props |-> <<>>, text |-> parts]

Num(gen, n) == [kind |-> "number", gen |-> gen, num |-> n, props |-> <<>>, text |-> <<>>]

Bool(gen) == [kind |-> "boolean", gen |-> gen, num |-> 0, props |-> <<>>, text |-> <<>>]

Null == [kind |-> "null", gen |-> "", num |-> 0, props |-> <<>>, text |-> <<>>]

Obj(props) == [kind |-> "object", gen |-> "", num |-> 0, props |-> props, text |-> <<>>]

\* an optional value: <<>> is undefined, <<v>> is v
Undefined == <<>>

IsDefined(o) == o # <<>>

\* JavaScript truthiness of an optional number: undefined and 0 are falsy
TruthyNumber(o) == IsDefined(o) /\ o[1] # 0

\* JavaScript truthiness of an optional boolean
TruthyFlag(o) == IsDefined(o) /\ o[1]

\* a || d for an optional number a
OrDefault(o, d) == IF TruthyNumber(o) THEN o[1] ELSE d

\* a || d for an optional string a ("" is falsy)
OrDefaultStr(o, d) == IF IsDefined(o) /\ o[1] # "" THEN o[1] ELSE d

-----------------------------------------------------------------------------
(* JavaScript objects: own properties in enumeration order, which is the   *)
(* canonical array indices in ascending numeric order first, then the      *)
(* other string keys in the order they were created.                       *)

IsArrayIndex(k) == k \in DOMAIN ArrayIndexValue

Keys(obj) == [i \in 1..Len(obj) |-> obj[i].key]

HasKey(obj, k) == \E i \in 1..Len(obj) : obj[i].key = k

Get(obj, k) == obj[CHOOSE i \in 1..Len(obj) : obj[i].key = k].value

\* number of leading properties that stay in front of a new property k
InsertPos(obj, k) ==
    IF IsArrayIndex(k)
    THEN Cardinality({i \in 1..Len(obj) :
            IsArrayIndex(obj[i].key)
            /\ ArrayIndexValue[obj[i].key] < ArrayIndexValue[k]})
    ELSE Len(obj)

\* data[k] = v
Put(obj, k, v) ==
    IF HasKey(obj, k)
    THEN [i \in 1..Len(obj) |->
            IF obj[i].key = k THEN [key |-> k, value |-> v] ELSE obj[i]]
    ELSE LET p == InsertPos(obj, k) IN
         SubSeq(obj, 1, p) \o <<[key |-> k, value |-> v]>>
                           \o SubSeq(obj, p + 1, Len(obj))

\* JSON.stringify(value, null, 2): the document's members in the object's
\* enumeration order, nested objects serialized recursively
RECURSIVE JSONstringify(_)
JSONstringify(v) ==
    IF v.kind = "object"
    THEN [json |-> "object",
          members |-> [i \in 1..Len(v.props) |->
                         [key |-> v.props[i].key,
                          value |-> JSONstringify(v.props[i].value)]]]
    ELSE [json |-> v.kind, gen |-> v.gen, num |-> v.num, text |-> v.text]

-----------------------------------------------------------------------------
(* Completions and errors                                                  *)

Error(name, message) == [name |-> name, message |-> message]

\* completion of a generator expression: the value or the error, and the
\* number of faker generators it invoked
GenOk(v, n) == [type |-> "normal", value |-> v, calls |-> n]

GenThrow(e, n) == [type |-> "throw", value |-> e, calls |-> n]

\* completion of a statement sequence over the accumulated effects
\* acc = [data, log, calls]
Normal(acc) == [type |-> "normal", error |-> Error("", <<>>), acc |-> acc]

Throw(e, acc) == [type |-> "throw", error |-> e, acc |-> acc]

-----------------------------------------------------------------------------
(* The faker library as index.ts uses it                                   *)

fakerEN == [defined |-> TRUE, locale |-> "en"]

\* a lookup of a per-locale instance that only knows "en"
createLocaleFaker_perLocale(locale) ==
    IF locale = "en" THEN fakerEN ELSE [defined |-> FALSE, locale |-> locale]

\* const createLocaleFaker = (locale) => fakerEN
createLocaleFaker(locale) == fakerEN

\* the cases of the switch that call one generator without arguments
FakerMethod ==
    ("firstName" :> "person.firstName") @@ ("lastName" :> "person.lastName") @@
    ("fullName" :> "person.fullName") @@ ("email" :> "internet.email") @@
    ("phone" :> "phone.number") @@ ("address" :> "location.streetAddress") @@
    ("city" :> "location.city") @@ ("country" :> "location.country") @@
    ("zipCode" :> "location.zipCode") @@ ("word" :> "word.sample") @@
    ("sentence" :> "lorem.sentence") @@ ("paragraph" :> "lorem.paragraph") @@
    ("uuid" :> "string.uuid") @@ ("boolean" :> "datatype.boolean") @@
    ("url" :> "internet.url") @@ ("ipAddress" :> "internet.ip") @@
    ("gender" :> "person.gender") @@ ("prefix" :> "person.prefix") @@
    ("suffix" :> "person.suffix") @@ ("jobTitle" :> "person.jobTitle") @@
    ("jobType" :> "person.jobType") @@ ("jobArea" :> "person.jobArea") @@
    ("userName" :> "internet.userName") @@ ("password" :> "internet.password") @@
    ("domainName" :> "internet.domainName") @@ ("protocol" :> "internet.protocol") @@
    ("httpMethod" :> "internet.httpMethod") @@
    ("countryCode" :> "location.countryCode") @@ ("state" :> "location.state") @@
    ("stateAbbr" :> "location.state.abbreviated") @@
    ("latitude" :> "location.latitude") @@ ("longitude" :> "location.longitude") @@
    ("timeZone" :> "location.timeZone") @@ ("weekday" :> "date.weekday") @@
    ("month" :> "date.month") @@ ("timestamp" :> "date.anytime.getTime") @@
    ("product" :> "commerce.product") @@ ("productName" :> "commerce.productName") @@
    ("department" :> "commerce.department") @@
    ("productMaterial" :> "commerce.productMaterial") @@
    ("productDescription" :> "commerce.productDescription") @@
    ("companyName" :> "company.name") @@ ("catchPhrase" :> "company.catchPhrase") @@
    ("bs" :> "company.buzzPhrase") @@ ("bsAdjective" :> "company.buzzAdjective") @@
    ("bsBuzz" :> "company.buzzVerb") @@ ("bsNoun" :> "company.buzzNoun") @@
    ("accountNumber" :> "finance.accountNumber") @@
    ("accountName" :> "finance.accountName") @@ ("amount" :> "finance.amount") @@
    ("currencyCode" :> "finance.currencyCode") @@
    ("currencyName" :> "finance.currencyName") @@
    ("currencySymbol" :> "finance.currencySymbol") @@
    ("bitcoinAddress" :> "finance.bitcoinAddress") @@
    ("vehicle" :> "vehicle.vehicle") @@ ("manufacturer" :> "vehicle.manufacturer") @@
    ("model" :> "vehicle.model") @@ ("type" :> "vehicle.type") @@
    ("fuel" :> "vehicle.fuel") @@ ("vin" :> "vehicle.vin") @@
    ("fileName" :> "system.fileName") @@ ("mimeType" :> "system.mimeType") @@
    ("fileExt" :> "system.fileExt") @@ ("directoryPath" :> "system.directoryPath") @@
    ("semver" :> "system.semver") @@
    ("chemicalElement" :> "science.chemicalElement") @@
    ("unit" :> "science.unit") @@ ("scientificUnit" :> "science.unit") @@
    ("genre" :> "music.genre") @@ ("songName" :> "music.songName") @@
    ("artist" :> "music.artist") @@ ("words" :> "word.words") @@
    ("text" :> "lorem.text")

\* the cases of the switch that read options
OptionCases == {"number", "date", "color", "price", "float"}

\* every case label of generateCustomData's switch
RecognizedTypes == DOMAIN FakerMethod \cup OptionCases

\* the value a generator without arguments returns
FakerValue(method) ==
    CASE method \in {"location.latitude", "location.longitude",
                     "date.anytime.getTime"} -> Num(method, 0)
      [] method = "datatype.boolean" -> Bool(method)
      [] method = "science.chemicalElement" ->
            Obj(<<[key |-> "symbol", value |-> Str(method)],
                  [key |-> "name", value |-> Str(method)],
                  [key |-> "atomicNumber", value |-> Num(method, 0)]>>)
      [] method = "science.unit" ->
            Obj(<<[key |-> "name", value |-> Str(method)],
                  [key |-> "symbol", value |-> Str(method)]>>)
      [] OTHER -> Str(method)

\* localeFaker.<method>(): a call on a missing instance is a TypeError
callFaker(localeFaker, method) ==
    IF localeFaker.defined
    THEN GenOk(FakerValue(method), 1)
    ELSE GenThrow(Error("TypeError", <<"Cannot read properties of undefined">>), 0)

\* the point of [min, max] the random source picks
PickIn(min, max, pick) ==
    CASE pick = "lo" -> min
      [] pick = "hi" -> max
      [] OTHER -> (min + max) \div 2

\* faker.number.int({min, max}): an integer of [min, max]; the library
\* throws FakerError "Max ... should be greater than min ..." when max < min
numberInt(localeFaker, min, max, pick) ==
    IF ~localeFaker.defined
    THEN GenThrow(Error("TypeError", <<"Cannot read properties of undefined">>), 0)
    ELSE IF max < min
    THEN GenThrow(Error("FakerError", <<"Max should be greater than min">>), 1)
    ELSE GenOk(Num("number.int", PickIn(min, max, pick)), 1)

\* faker.number.float({min, max, fractionDigits}): a number of [min, max];
\* throws like number.int when max < min
numberFloat(localeFaker, min, max, fractionDigits, pick) ==
    IF ~localeFaker.defined
    THEN GenThrow(Error("TypeError", <<"Cannot read properties of undefined">>), 0)
    ELSE IF max < min
    THEN GenThrow(Error("FakerError", <<"Max should be greater than min">>), 1)
    ELSE GenOk(Num("number.float", PickIn(min, max, pick)), 1)

\* faker.commerce.price({min, max}): a decimal string; "0" when a bound is
\* negative, otherwise drawn with number.int and so throwing when max < min
commercePrice(localeFaker, min, max, pick) ==
    IF ~localeFaker.defined
    THEN GenThrow(Error("TypeError", <<"Cannot read properties of undefined">>), 0)
    ELSE IF min < 0 \/ max < 0
    THEN GenOk(NumStr("commerce.price", 0), 1)
    ELSE IF max < min
    THEN GenThrow(Error("FakerError", <<"Max should be greater than min">>), 1)
    ELSE GenOk(NumStr("commerce.price", PickIn(min, max, pick)), 1)

-----------------------------------------------------------------------------
(* MockDataServer.generateCustomData                                       *)

\* the options of a field: undefined, null or an object whose properties
\* are optional values
NoOptions ==
    [kind |-> "undefined", min |-> <<>>, max |-> <<>>, precision |-> <<>>,
     format |-> <<>>, past |-> <<>>, future |-> <<>>]

NullOptions == [NoOptions EXCEPT !.kind = "null"]

EmptyOptions == [NoOptions EXCEPT !.kind = "object"]

\* reading a property of options, which throws when options is null
ReadsNull(options) == options.kind = "null"

NullRead ==
    GenThrow(Error("TypeError", <<"Cannot read properties of null">>), 0)

\* the switch (type) of the try block: the value assigned to data[name]
customSwitch(type, options, localeFaker, pick) ==
    CASE type = "number" ->
            IF ReadsNull(options) THEN NullRead
            ELSE numberInt(localeFaker, OrDefault(options.min, 0),
                           OrDefault(options.max, 1000), pick)
      [] type = "date" ->
            IF ReadsNull(options) THEN NullRead
            ELSE IF TruthyFlag(options.past)
            THEN callFaker(localeFaker, "date.past.toISOString")
            ELSE IF TruthyFlag(options.future)
            THEN callFaker(localeFaker, "date.future.toISOString")
            ELSE callFaker(localeFaker, "date.recent.toISOString")
      [] type = "color" ->
            IF ReadsNull(options) THEN NullRead
            ELSE IF ~localeFaker.defined THEN callFaker(localeFaker, "number.int")
            ELSE IF options.format = <<"rgb">>
            THEN GenOk(Str("color.rgb"), 3)
            ELSE GenOk(Str("color.hex"), 1)
      [] type = "price" ->
            IF ReadsNull(options) THEN NullRead
            ELSE commercePrice(localeFaker, OrDefault(options.min, 1),
                               OrDefault(options.max, 1000), pick)
      [] type = "float" ->
            IF ReadsNull(options) THEN NullRead
            ELSE numberFloat(localeFaker, OrDefault(options.min, 0),
                             OrDefault(options.max, 1000),
                             OrDefault(options.precision, 2), pick)
      [] type \in DOMAIN FakerMethod -> callFaker(localeFaker, FakerMethod[type])
      [] OTHER -> GenThrow(Error("Error", <<"Unsupported field type: ", type>>), 0)

\* a catch block that logs and leaves the field out of the record
catchFieldError_omits(name, error, acc) ==
    [acc EXCEPT !.log = Append(@, [color |-> "yellow", field |-> name,
                                   error |-> error])]

\* the catch block of the field callback
catchFieldError(name, error, acc) ==
    [acc EXCEPT !.log = Append(@, [color |-> "yellow", field |-> name,
                                   error |-> error]),
                !.data = Put(@, name, Null)]

\* an element of the fields array that is null instead of an object
NullElement == [isNull |-> TRUE, name |-> "", type |-> "", options |-> NoOptions]

\* the callback without its try / catch: a failing field ends the loop
customFieldCallback_noTry(field, pick, localeFaker, acc) ==
    IF field.isNull
    THEN Throw(Error("TypeError", <<"Cannot destructure property 'name' of null">>), acc)
    ELSE LET options == IF field.options.kind = "undefined"
                        THEN EmptyOptions ELSE field.options
             g == customSwitch(field.type, options, localeFaker, pick)
             counted == [acc EXCEPT !.calls = @ + g.calls]
         IN  IF g.type = "normal"
             THEN Normal([counted EXCEPT !.data = Put(@, field.name, g.value)])
             ELSE Throw(g.value, counted)

\* the forEach callback: destructuring (outside the try), then try / catch
customFieldCallback(field, pick, localeFaker, acc) ==
    IF field.isNull
    THEN Throw(Error("TypeError", <<"Cannot destructure property 'name' of null">>), acc)
    ELSE LET options == IF field.options.kind = "undefined"
                        THEN EmptyOptions ELSE field.options
             g == customSwitch(field.type, options, localeFaker, pick)
             counted == [acc EXCEPT !.calls = @ + g.calls]
         IN  IF g.type = "normal"
             THEN Normal([counted EXCEPT !.data = Put(@, field.name, g.value)])
             ELSE Normal(catchFieldError(field.name, g.value, counted))

\* fields.forEach(callback) from element i on: an exception of the callback
\* ends the loop and propagates
RECURSIVE customForEach(_, _, _, _, _)
customForEach(items, picks, i, localeFaker, acc) ==
    IF i > Len(items) THEN Normal(acc)
    ELSE LET c == customFieldCallback(items[i], picks[i], localeFaker, acc)
         IN  IF c.type = "throw" THEN c
             ELSE customForEach(items, picks, i + 1, localeFaker, c.acc)

\* JSON.parse of a serialized value
RECURSIVE JSONparse(_)
JSONparse(j) ==
    IF j.json = "object"
    THEN Obj([i \in 1..Len(j.members) |->
                [key |-> j.members[i].key, value |-> JSONparse(j.members[i].value)]])
    ELSE [kind |-> j.json, gen |-> j.gen, num |-> j.num, props |-> <<>>, text |-> j.text]

\* a record object that is created once and shared by all calls: a call
\* starts from the entries of the record returned last
EmptyAcc_shared ==
    [data |-> IF taken # <<>> /\ taken[Len(taken)].response.isError = <<>>
              THEN JSONparse(taken[Len(taken)].response.content[1].text).props
              ELSE <<>>,
     log |-> <<>>, calls |-> 0]

\* nothing written, nothing logged, no generator called
EmptyAcc == [data |-> <<>>, log |-> <<>>, calls |-> 0]

NotAnArray == Error("TypeError", <<"Cannot read properties of undefined (reading 'forEach')">>)

generateCustomData(locale, fields, picks) ==
    LET localeFaker == createLocaleFaker(locale)
    IN  IF fields.kind # "array" THEN Throw(NotAnArray, EmptyAcc)
        ELSE customForEach(fields.items, picks, 1, localeFaker, EmptyAcc)

-----------------------------------------------------------------------------
(* MockDataServer.generatePersonData and generateCompanyData               *)

\* the address as the flat string of the custom-data path
nestedAddress_flat(localeFaker) == callFaker(localeFaker, "location.streetAddress")

\* the object literal {street, city, state, country, zipCode}
nestedAddress(localeFaker) ==
    IF ~localeFaker.defined THEN callFaker(localeFaker, "location.streetAddress")
    ELSE GenOk(Obj(<<[key |-> "street", value |-> Str("location.streetAddress")],
                     [key |-> "city", value |-> Str("location.city")],
                     [key |-> "state", value |-> Str("location.state")],
                     [key |-> "country", value |-> Str("location.country")],
                     [key |-> "zipCode", value |-> Str("location.zipCode")]>>), 5)

\* the case labels of generatePersonData's switch
PersonFieldTags == {"firstName", "lastName", "email", "phone", "address", "dateOfBirth"}

\* the value generatePersonData assigns to data.<field>
personSwitch(field, localeFaker) ==
    CASE field = "firstName" -> callFaker(localeFaker, "person.firstName")
      [] field = "lastName" -> callFaker(localeFaker, "person.lastName")
      [] field = "email" -> callFaker(localeFaker, "internet.email")
      [] field = "phone" -> callFaker(localeFaker, "phone.number")
      [] field = "address" -> nestedAddress(localeFaker)
      [] field = "dateOfBirth" -> callFaker(localeFaker, "date.past.toISOString")

\* the case labels of generateCompanyData's switch
CompanyFieldTags == {"name", "industry", "catchPhrase", "address", "phone"}

\* the value generateCompanyData assigns to data.<field>
companySwitch(field, localeFaker) ==
    CASE field = "name" -> callFaker(localeFaker, "company.name")
      [] field = "industry" -> callFaker(localeFaker, "company.buzzPhrase")
      [] field = "catchPhrase" -> callFaker(localeFaker, "company.catchPhrase")
      [] field = "address" -> nestedAddress(localeFaker)
      [] field = "phone" -> callFaker(localeFaker, "phone.number")

\* a forEach callback of the two fixed-shape generators: a switch without a
\* default and without a try, so a field that matches no case writes nothing
fixedFieldCallback(tool, field, localeFaker, acc) ==
    LET tags == IF tool = "generatePerson" THEN PersonFieldTags ELSE CompanyFieldTags
    IN  IF field \notin tags THEN Normal(acc)
        ELSE LET g == IF tool = "generatePerson"
                      THEN personSwitch(field, localeFaker)
                      ELSE companySwitch(field, localeFaker)
                 counted == [acc EXCEPT !.calls = @ + g.calls]
             IN  IF g.type = "normal"
                 THEN Normal([counted EXCEPT !.data = Put(@, field, g.value)])
                 ELSE Throw(g.value, counted)

RECURSIVE fixedForEach(_, _, _, _, _)
fixedForEach(tool, items, i, localeFaker, acc) ==
    IF i > Len(items) THEN Normal(acc)
    ELSE LET c == fixedFieldCallback(tool, items[i], localeFaker, acc)
         IN  IF c.type = "throw" THEN c
             ELSE fixedForEach(tool, items, i + 1, localeFaker, c.acc)

generatePersonData(locale, fields) ==
    LET localeFaker == createLocaleFaker(locale)
    IN  IF fields.kind # "array" THEN Throw(NotAnArray, EmptyAcc)
        ELSE fixedForEach("generatePerson", fields.items, 1, localeFaker, EmptyAcc)

generateCompanyData(locale, fields) ==
    LET localeFaker == createLocaleFaker(locale)
    IN  IF fields.kind # "array" THEN Throw(NotAnArray, EmptyAcc)
        ELSE fixedForEach("generateCompany", fields.items, 1, localeFaker, EmptyAcc)

-----------------------------------------------------------------------------
(* MockDataServer.processRequest                                           *)

\* request.params.arguments left out by the host
NoArguments == [defined |-> FALSE, locale |-> <<>>,
                fields |-> [kind |-> "undefined", items |-> <<>>]]

\* the try block up to the end of the switch (toolName)
routeRequest(toolName, args, picks) ==
    IF ~args.defined
    THEN Throw(Error("TypeError",
                     <<"Cannot read properties of undefined (reading 'locale')">>),
               EmptyAcc)
    ELSE LET locale == OrDefaultStr(args.locale, "en")
         IN  CASE toolName = "generateCustomData" ->
                     generateCustomData(locale, args.fields, picks)
               [] toolName = "generatePerson" ->
                     generatePersonData(locale, args.fields)
               [] toolName = "generateCompany" ->
                     generateCompanyData(locale, args.fields)
               [] OTHER ->
                     Throw(Error("Error", <<"Unknown tool: ", toolName>>), EmptyAcc)

\* return { content: [{type: "text", text: JSON.stringify(result, null, 2)}] }
successEnvelope(c) ==
    [completion |-> "return",
     content |-> <<[type |-> "text", text |-> JSONstringify(Obj(c.acc.data))]>>,
     isError |-> <<>>,
     log |-> Append(c.acc.log, [color |-> "green", field |-> "", error |-> c.error]),
     calls |-> c.acc.calls]

\* the catch block: the error object serialized, isError: true
failureEnvelope(c) ==
    [completion |-> "return",
     content |-> <<[type |-> "text",
                    text |-> JSONstringify(Obj(
                        <<[key |-> "error", value |-> Lit(c.error.message)],
                          [key |-> "status", value |-> Lit(<<"failed">>)]>>))]>>,
     isError |-> <<TRUE>>,
     log |-> Append(c.acc.log, [color |-> "red", field |-> "", error |-> c.error]),
     calls |-> c.acc.calls]

\* processRequest without its catch block: the error reaches the caller
processRequest_noCatch(toolName, args, picks) ==
    LET c == routeRequest(toolName, args, picks)
    IN  IF c.type = "normal" THEN successEnvelope(c)
        ELSE [completion |-> "throw", content |-> <<>>, isError |-> <<>>,
              log |-> c.acc.log, calls |-> c.acc.calls]

processRequest(toolName, args, picks) ==
    LET c == routeRequest(toolName, args, picks)
    IN  IF c.type = "normal" THEN successEnvelope(c) ELSE failureEnvelope(c)

\* const MOCK_DATA_TOOLS: the names of the tools the server lists
MOCK_DATA_TOOLS == <<"generateCustomData", "generatePerson", "generateCompany">>

-----------------------------------------------------------------------------
(* The requests the host sends                                             *)

SeqsUpTo(S, n) == UNION {[1..k -> S] : k \in 0..n}

Field(name, type, options) ==
    [isNull |-> FALSE, name |-> name, type |-> type, options |-> options]

\* field definitions of the multi-field requests: a plain generator, the
\* flat address, a number, a number whose options are null (a fault inside
\* the try block), a type that is no case of the switch
SampleKinds ==
    {<<"firstName", NoOptions>>, <<"address", NoOptions>>, <<"number", NoOptions>>,
     <<"number", NullOptions>>, <<"unsupportedType", NoOptions>>}

SampleFields ==
    {Field(n, k[1], k[2]) : n \in Names, k \in SampleKinds} \cup {NullElement}

\* the option values a request may give for min / max
OptionNumbers == {<<>>} \cup {<<n>> : n \in (0 - OptBound)..OptBound}

\* options objects by the case that reads them
NumericOptions ==
    {[EmptyOptions EXCEPT !.min = lo, !.max = hi] : lo \in OptionNumbers, hi \in OptionNumbers}

DateOptions ==
    {[EmptyOptions EXCEPT !.past = p, !.future = f] : p \in {<<>>, <<TRUE>>}, f \in {<<>>, <<TRUE>>}}

ColorOptions == {[EmptyOptions EXCEPT !.format = f] : f \in {<<>>, <<"rgb">>, <<"hex">>}}

OptionsFor(type) ==
    {NoOptions, NullOptions} \cup
    (CASE type \in {"number", "price", "float"} -> NumericOptions
       [] type = "date" -> DateOptions
       [] type = "color" -> ColorOptions
       [] OTHER -> {EmptyOptions})

\* single field definitions over the whole catalog of types and options
CatalogFields ==
    UNION {{Field("a", t, o) : o \in OptionsFor(t)} :
           t \in RecognizedTypes \cup {"unsupportedType"}}

Arguments(locale, items) ==
    [defined |-> TRUE, locale |-> locale, fields |-> [kind |-> "array", items |-> items]]

\* an argument bag without a fields property
NoFields(locale) ==
    [defined |-> TRUE, locale |-> locale, fields |-> [kind |-> "undefined", items |-> <<>>]]

CallTool(name, arguments) ==
    [method |-> "tools/call", name |-> name, arguments |-> arguments]

\* the field tags the host may send to the fixed-shape tools: the schema's
\* enumeration and one tag outside it (the handler does not validate)
PersonTagsSent == PersonFieldTags \cup {"age"}

CompanyTagsSent == CompanyFieldTags \cup {"ceo"}

\* whether a field's generator draws a number from the random source
ConsumesPick(field) ==
    ~field.isNull /\ field.type \in {"number", "price", "float"}
    /\ field.options.kind # "null"

\* the draws of the random source during one call, one per field
PicksFor(req) ==
    IF req.name = "generateCustomData" /\ req.arguments.fields.kind = "array"
    THEN LET items == req.arguments.fields.items
         IN  {r \in [1..Len(items) -> RandomPicks] :
                \A i \in 1..Len(items) : ~ConsumesPick(items[i]) => r[i] = "lo"}
    ELSE {<<>>}

-----------------------------------------------------------------------------
(* The server: the host sends one request at a time, awaits its result and  *)
(* takes it; nothing of a call is kept once its result is taken.           *)

NoRequest == [method |-> "none"]

NoResponse == [completion |-> "none"]

Init ==
    /\ pc = "idle"
    /\ request = NoRequest
    /\ rnd = <<>>
    /\ response = NoResponse
    /\ sideband = <<>>
    /\ calls = 0
    /\ taken = <<>>

Send(req) ==
    /\ pc = "idle"
    /\ pc' = "handling"
    /\ request' = req
    /\ rnd' = <<>>
    /\ response' = NoResponse
    /\ sideband' = <<>>
    /\ calls' = 0
    /\ UNCHANGED taken

HostCallCustom ==
    /\ pc = "idle"
    /\ \E l \in Locales :
        \/ \E items \in SeqsUpTo(SampleFields, MaxFields) :
              Send(CallTool("generateCustomData", Arguments(l, items)))
        \/ Send(CallTool("generateCustomData", NoFields(l)))
        \/ Send(CallTool("generateCustomData", NoArguments))

HostCallPerson ==
    /\ pc = "idle"
    /\ \E l \in Locales :
        \/ \E items \in SeqsUpTo(PersonTagsSent, MaxFields) :
              Send(CallTool("generatePerson", Arguments(l, items)))
        \/ Send(CallTool("generatePerson", NoFields(l)))
        \/ Send(CallTool("generatePerson", NoArguments))

HostCallCompany ==
    /\ pc = "idle"
    /\ \E l \in Locales :
        \/ \E items \in SeqsUpTo(CompanyTagsSent, MaxFields) :
              Send(CallTool("generateCompany", Arguments(l, items)))
        \/ Send(CallTool("generateCompany", NoFields(l)))
        \/ Send(CallTool("generateCompany", NoArguments))

HostCallUnknown ==
    /\ pc = "idle"
    /\ \E name \in {"doesNotExist", "generatePersons"}, l \in Locales :
        \/ \E items \in SeqsUpTo(SampleFields, 1) :
              Send(CallTool(name, Arguments(l, items)))
        \/ Send(CallTool(name, NoFields(l)))
        \/ Send(CallTool(name, NoArguments))

HostCallCatalog ==
    /\ pc = "idle"
    /\ \E f \in CatalogFields :
        Send(CallTool("generateCustomData", Arguments(<<>>, <<f>>)))

HostListTools ==
    /\ pc = "idle"
    /\ Send([method |-> "tools/list"])

\* server.setRequestHandler(CallToolRequestSchema, ...)
HandleCallTool ==
    /\ pc = "handling"
    /\ request.method = "tools/call"
    /\ \E picks \in PicksFor(request) :
          LET r == processRequest(request.name, request.arguments, picks)
          IN  /\ rnd' = picks
              /\ response' = [completion |-> r.completion, content |-> r.content,
                              isError |-> r.isError]
              /\ sideband' = r.log
              /\ calls' = r.calls
    /\ pc' = "responded"
    /\ UNCHANGED <<request, taken>>

\* server.setRequestHandler(ListToolsRequestSchema, ...)
HandleListTools ==
    /\ pc = "handling"
    /\ request.method = "tools/list"
    /\ response' = [completion |-> "return", tools |-> MOCK_DATA_TOOLS]
    /\ pc' = "responded"
    /\ UNCHANGED <<request, rnd, sideband, calls, taken>>

\* the host takes the result: request, result and the effects of the call
\* are gone
HostReceive ==
    /\ pc = "responded"
    /\ pc' = "idle"
    /\ request' = NoRequest
    /\ rnd' = <<>>
    /\ response' = NoResponse
    /\ sideband' = <<>>
    /\ calls' = 0
    /\ UNCHANGED taken

\* the host takes the result of a tool call and remembers the call and its
\* result; the server keeps nothing
HostKeep ==
    /\ pc = "responded"
    /\ request.method = "tools/call"
    /\ Len(taken) < MaxEarlier
    /\ taken' = Append(taken, [request |-> request, response |-> response])
    /\ pc' = "idle"
    /\ request' = NoRequest
    /\ rnd' = <<>>
    /\ response' = NoResponse
    /\ sideband' = <<>>
    /\ calls' = 0

\* the requests of the repeated-call runs whose items are field objects
RepeatCustomRequests ==
    {CallTool("generateCustomData",
              Arguments(<<>>, <<Field("a", "number", NoOptions),
                                Field("1", "unsupportedType", NoOptions)>>)),
     CallTool("generateCustomData",
              Arguments(<<"fr">>, <<Field("a", "number", NoOptions),
                                    Field("1", "unsupportedType", NoOptions)>>)),
     CallTool("generateCustomData",
              Arguments(<<>>, <<Field("b", "address", NoOptions),
                                Field("a", "number", NullOptions)>>)),
     CallTool("generateCustomData", Arguments(<<>>, <<NullElement>>)),
     CallTool("generateCustomData", NoArguments),
     CallTool("doesNotExist", Arguments(<<>>, <<Field("a", "firstName", NoOptions)>>))}

\* the requests of the repeated-call runs whose items are tags
RepeatFixedRequests ==
    {CallTool("generatePerson", Arguments(<<>>, <<"address", "age">>)),
     CallTool("generatePerson", Arguments(<<>>, <<"firstName">>)),
     CallTool("generateCompany", Arguments(<<>>, <<"name", "address">>)),
     CallTool("generateCompany", NoFields(<<>>))}

HostCallRepeat ==
    /\ pc = "idle"
    /\ \/ \E req \in RepeatCustomRequests : Send(req)
       \/ \E req \in RepeatFixedRequests : Send(req)

Next ==
    \/ HostCallCustom
    \/ HostCallPerson
    \/ HostCallCompany
    \/ HostCallUnknown
    \/ HostListTools
    \/ HandleCallTool
    \/ HandleListTools
    \/ HostReceive

Spec == Init /\ [][Next]_vars

\* single-field requests over the whole catalog of types and options
NextCatalog ==
    \/ HostCallCatalog
    \/ HandleCallTool
    \/ HostReceive

SpecCatalog == Init /\ [][NextCatalog]_vars

\* sequences of calls whose results the host remembers
NextRepeat ==
    \/ HostCallRepeat
    \/ HandleCallTool
    \/ HostKeep
    \/ HostReceive

SpecRepeat == Init /\ [][NextRepeat]_vars

-----------------------------------------------------------------------------
(* Reading a handled call                                                  *)

\* a tool call has been handled and its result not yet taken
Handled == pc = "responded" /\ request.method = "tools/call"

ToolNames == {"generateCustomData", "generatePerson", "generateCompany"}

Items == request.arguments.fields.items

\* the argument bag is an object whose fields property is an array
HasFieldList == request.arguments.defined /\ request.arguments.fields.kind = "array"

\* a well-formed generateCustomData call: every element is a field object
CustomCall ==
    /\ Handled
    /\ request.name = "generateCustomData"
    /\ HasFieldList
    /\ \A i \in 1..Len(Items) : ~Items[i].isNull

\* a well-formed generatePerson or generateCompany call
FixedCall ==
    /\ Handled
    /\ request.name \in {"generatePerson", "generateCompany"}
    /\ HasFieldList

\* the request-level errors: unknown tool, malformed argument bag
UnknownTool == request.name \notin ToolNames

Malformed ==
    \/ ~HasFieldList
    \/ request.name = "generateCustomData" /\ \E i \in 1..Len(Items) : Items[i].isNull

\* no later field of the request carries the name of field i
LastOfName(i) == \A j \in (i + 1)..Len(Items) : Items[j].name # Items[i].name

\* the names (custom fields) or tags (fixed shapes) are pairwise distinct
DistinctNames == \A i, j \in 1..Len(Items) : i # j => Items[i].name # Items[j].name

DistinctTags == \A i, j \in 1..Len(Items) : i # j => Items[i] # Items[j]

ResponseText == response.content[1].text

SuccessEnvelope ==
    /\ response.completion = "return"
    /\ response.isError = <<>>
    /\ Len(response.content) = 1
    /\ response.content[1].type = "text"
    /\ ResponseText.json = "object"

FailureEnvelope ==
    /\ response.completion = "return"
    /\ response.isError = <<TRUE>>
    /\ Len(response.content) = 1
    /\ response.content[1].type = "text"
    /\ ResponseText.json = "object"
    /\ Len(ResponseText.members) = 2
    /\ ResponseText.members[1].key = "error"
    /\ ResponseText.members[1].value.json = "string"
    /\ ResponseText.members[2].key = "status"
    /\ ResponseText.members[2].value.text = <<"failed">>

\* the members of the serialized record
Members == ResponseText.members

MemberKeys == [i \in 1..Len(Members) |-> Members[i].key]

HasMember(k) == \E i \in 1..Len(Members) : Members[i].key = k

Member(k) == Members[CHOOSE i \in 1..Len(Members) : Members[i].key = k].value

\* the field's generation fails inside the try block: its type is no case
\* of the switch, or the case reads a property of null options
FieldFails(field) ==
    \/ field.type \notin RecognizedTypes
    \/ field.type \in OptionCases /\ field.options.kind = "null"

-----------------------------------------------------------------------------
-----------------------------------------------------------------------------
\* the record generateCustomData has built after the first k fields
DataAfter(k) ==
    generateCustomData(OrDefaultStr(request.arguments.locale, "en"),
                       [kind |-> "array", items |-> SubSeq(Items, 1, k)],
                       SubSeq(rnd, 1, k)).acc.data

\* field k's name is not used again from field i on
NotRewritten(key, i) == \A j \in i..Len(Items) : Items[j].name # key

(* C2: per-field isolation.  In a generateCustomData call whose elements    *)
(* are field objects, when the generation of field i fails (unsupported    *)
(* type, or a fault of the generator expression), the call still returns   *)
(* the success envelope, every field after i has its own entry in the      *)
(* returned record, and every entry written before i under another name is *)
(* left as it was: it is the same right after field i, and the same in the *)
(* returned record unless a later field carries its name.                  *)
C2_PerFieldIsolation ==
    CustomCall =>
        \A i \in 1..Len(Items) :
            FieldFails(Items[i]) =>
               /\ SuccessEnvelope
               /\ \A j \in (i + 1)..Len(Items) : HasMember(Items[j].name)
               /\ LET before == DataAfter(i - 1)
                      after == DataAfter(i)
                  IN  \A k \in 1..Len(before) :
                         before[k].key # Items[i].name =>
                            /\ HasKey(after, before[k].key)
                            /\ Get(after, before[k].key) = before[k].value
                            /\ NotRewritten(before[k].key, i) =>
                                  /\ HasMember(before[k].key)
                                  /\ Member(before[k].key) = JSONstringify(before[k].value)

\* a field whose generator faults, followed by a field that is generated:
\* the first is null, the second has its value, the call succeeded
C2_Witness ==
    /\ CustomCall
    /\ Len(Items) = 2
    /\ Items[1].type = "number" /\ FieldFails(Items[1])
    /\ Items[2].type = "number" /\ ~FieldFails(Items[2])
    /\ Items[1].name # Items[2].name
    /\ SuccessEnvelope
    /\ Member(Items[1].name).json = "null"
    /\ Member(Items[2].name).json = "number"

-----------------------------------------------------------------------------
(* C3: in a call of any of the three tools whose field list has N elements *)
(* (field objects with pairwise distinct names, or pairwise distinct tags), *)
(* the response is the success envelope and the returned record has        *)
(* exactly N entries, one per input field.                                 *)
C3_OneEntryPerField ==
    /\ (CustomCall /\ DistinctNames) =>
          SuccessEnvelope /\ Len(Members) = Len(Items)
    /\ (FixedCall /\ DistinctTags) =>
          SuccessEnvelope /\ Len(Members) = Len(Items)

-----------------------------------------------------------------------------
(* C4: in a generateCustomData call (field objects with pairwise distinct  *)
(* names), the keys of the serialized record are the field names in the    *)
(* order of the input field list, for every choice of names.               *)
C4_KeysInFieldOrder ==
    (CustomCall /\ DistinctNames) =>
        /\ SuccessEnvelope
        /\ MemberKeys = [i \in 1..Len(Items) |-> Items[i].name]

-----------------------------------------------------------------------------
\* the error message of the failure envelope names the tool
MentionsTool ==
    \E i \in 1..Len(ResponseText.members[1].value.text) :
        ResponseText.members[1].value.text[i] = request.name

(* C5: a call whose tool name is none of the three tools gets, for every   *)
(* argument bag, the failure envelope with isError set and an error message *)
(* that mentions the tool name, and no generator is invoked.               *)
C5_UnknownToolFails ==
    (Handled /\ UnknownTool) =>
        /\ FailureEnvelope
        /\ MentionsTool
        /\ calls = 0

-----------------------------------------------------------------------------
(* C6: every handled call returns (processRequest never throws) exactly one *)
(* of the two envelopes; it is the failure envelope exactly when the error *)
(* is request-level (unknown tool, malformed argument bag), so a field of  *)
(* unsupported type never makes the call fail.                             *)
C6_TwoTerminalStates ==
    Handled =>
        /\ response.completion = "return"
        /\ SuccessEnvelope \/ FailureEnvelope
        /\ ~(SuccessEnvelope /\ FailureEnvelope)
        /\ FailureEnvelope <=> (UnknownTool \/ Malformed)

\* a well-formed call with a field of unsupported type ended in Success
C6_Witness ==
    /\ CustomCall
    /\ Len(Items) >= 1
    /\ Items[1].type \notin RecognizedTypes
    /\ SuccessEnvelope
    /\ ~FailureEnvelope

-----------------------------------------------------------------------------
\* a handled generateCustomData call of one field whose options are a
\* mapping (an object) or missing
OneFieldCall ==
    /\ CustomCall
    /\ Len(Items) = 1
    /\ Items[1].options.kind \in {"undefined", "object"}

\* the bound the request states, or the documented default when absent
StatedBound(o, default) == IF IsDefined(o) THEN o[1] ELSE default

(* C7: a field of type number with integer options min <= max gets an      *)
(* integer v with min <= v <= max, where an absent min stands for 0 and an *)
(* absent max for 1000; for every value of the bounds, 0 and negative      *)
(* values included.                                                        *)
C7_NumberWithinBounds ==
    (OneFieldCall /\ Items[1].type = "number") =>
        LET lo == StatedBound(Items[1].options.min, 0)
            hi == StatedBound(Items[1].options.max, 1000)
        IN  lo <= hi =>
               /\ HasMember("a")
               /\ Member("a").json = "number"
               /\ Member("a").gen = "number.int"
               /\ lo <= Member("a").num
               /\ Member("a").num <= hi

-----------------------------------------------------------------------------
\* the kind of value section 4.1 and section 8 of the specification
\* document for a type, where they document one
DocumentedKinds(type) ==
    CASE type \in {"number", "float", "timestamp"} -> {"number"}
      [] type = "boolean" -> {"boolean"}
      [] type \in {"price"} -> {"string", "number"}
      [] type \in {"date", "color", "uuid"} -> {"string"}
      [] OTHER -> {"string", "number", "boolean", "object"}

(* C8: a field of a recognized type gets, for every options mapping        *)
(* (missing, empty, or with invalid values such as min greater than max),  *)
(* a non-null value of the kind documented for the type under its name.    *)
C8_RecognizedTypeNeverNull ==
    (OneFieldCall /\ Items[1].type \in RecognizedTypes) =>
        /\ SuccessEnvelope
        /\ HasMember("a")
        /\ Member("a").json # "null"
        /\ Member("a").json \in DocumentedKinds(Items[1].type)

-----------------------------------------------------------------------------
AddressKeys == <<"street", "city", "state", "country", "zipCode">>

(* C9: generatePerson and generateCompany with the tag "address" return    *)
(* under "address" a nested record with exactly the five sub-keys street,  *)
(* city, state, country, zipCode, all strings; a generateCustomData field  *)
(* of type "address" gets a single flat string, never a nested record.     *)
C9_AddressShapes ==
    /\ FixedCall =>
          \A i \in 1..Len(Items) :
              Items[i] = "address" =>
                 /\ SuccessEnvelope
                 /\ HasMember("address")
                 /\ Member("address").json = "object"
                 /\ [k \in 1..Len(Member("address").members) |->
                        Member("address").members[k].key] = AddressKeys
                 /\ \A k \in 1..Len(Member("address").members) :
                        Member("address").members[k].value.json = "string"
    /\ CustomCall =>
          \A i \in 1..Len(Items) :
              (Items[i].type = "address" /\ LastOfName(i)) =>
                 /\ HasMember(Items[i].name)
                 /\ Member(Items[i].name).json = "string"
                 /\ Member(Items[i].name).gen = "location.streetAddress"

\* a generatePerson call that asked for the address and got the nested record
C9_Witness ==
    /\ FixedCall
    /\ request.name = "generatePerson"
    /\ Len(Items) >= 1
    /\ Items[1] = "address"
    /\ SuccessEnvelope
    /\ Member("address").json = "object"
    /\ Len(Member("address").members) = 5

-----------------------------------------------------------------------------
\* the keys of a serialized value and the kind of value under each key
RECURSIVE ShapeOfJson(_)
ShapeOfJson(j) ==
    IF j.json = "object"
    THEN [kind |-> "object",
          members |-> [i \in 1..Len(j.members) |->
                         [key |-> j.members[i].key,
                          shape |-> ShapeOfJson(j.members[i].value)]]]
    ELSE [kind |-> j.json, members |-> <<>>]

\* the terminal state of a call and the shape of what it returns
Outcome(resp) ==
    [completion |-> resp.completion,
     isError |-> resp.isError,
     shape |-> IF resp.completion = "return" /\ Len(resp.content) = 1
               THEN ShapeOfJson(resp.content[1].text)
               ELSE [kind |-> "none", members |-> <<>>]]

\* the same argument bag with locale "en"
WithLocaleEn(args) == IF args.defined THEN [args EXCEPT !.locale = <<"en">>] ELSE args

(* C10: the locale argument never causes an error and never changes the    *)
(* outcome: a call with any locale (absent, empty, "en", another string)   *)
(* ends in the same terminal state, with the same record keys and value    *)
(* kinds, as the same call with locale "en" and the same random draws.     *)
C10_LocaleIgnored ==
    Handled =>
        /\ Outcome(response) =
              Outcome(processRequest(request.name, WithLocaleEn(request.arguments), rnd))
        /\ (request.arguments.defined /\ ~UnknownTool /\ ~Malformed) => SuccessEnvelope

\* a call with locale "fr" that returned a generated record
C10_Witness ==
    /\ Handled
    /\ request.arguments.defined
    /\ request.arguments.locale = <<"fr">>
    /\ SuccessEnvelope
    /\ Len(Members) >= 1
    /\ Members[1].value.json # "null"

-----------------------------------------------------------------------------
\* the names (field objects) or tags of the current call's field list
RequestedKeys ==
    IF request.name = "generateCustomData"
    THEN {Items[i].name : i \in 1..Len(Items)}
    ELSE {Items[i] : i \in 1..Len(Items)}

\* an earlier call of the same tool with the identical field list
SameCall(e) ==
    /\ e.request.name = request.name
    /\ e.request.arguments.defined = request.arguments.defined
    /\ e.request.arguments.fields = request.arguments.fields

(* C11: idempotence of shape across a sequence of calls.  After any        *)
(* sequence of earlier calls (successful or failed, of any tool), a call   *)
(* with the same tool name and the identical field list as an earlier one  *)
(* ends in the same terminal state with the same keys and the same kind of *)
(* value under each key; and nothing of another call shows in a response:  *)
(* every key of a returned record is a name or tag of the call's own field *)
(* list, and an error names no tool but the call's own.                    *)
C11_ShapeIdempotent ==
    Handled =>
        /\ \A k \in 1..Len(taken) :
              SameCall(taken[k]) => Outcome(taken[k].response) = Outcome(response)
        /\ (SuccessEnvelope /\ HasFieldList) =>
              \A i \in 1..Len(Members) : Members[i].key \in RequestedKeys
        /\ FailureEnvelope =>
              \A k \in 1..Len(taken) :
                  taken[k].request.name # request.name =>
                     \A i \in 1..Len(ResponseText.members[1].value.text) :
                         ResponseText.members[1].value.text[i] # taken[k].request.name

\* the same custom call for the second time, with a different random draw,
\* after a call of another tool in between
C11_Witness ==
    /\ Handled
    /\ Len(taken) = 2
    /\ SameCall(taken[1])
    /\ ~SameCall(taken[2])
    /\ taken[2].request.name # request.name
    /\ request.name = "generateCustomData"
    /\ SuccessEnvelope
    /\ Len(Members) = 2
    /\ taken[1].response # response

====
